---------------------------- MODULE Spec2Model ----------------------------
(***************************************************************************)
(* A model of ctre-rs' motor controller layer (src/src/motor_control.rs):  *)
(* the control dispatcher (set / neutral_output / follow), the fault       *)
(* decoders (Faults, StickyFaults), the motion-profile buffer and status   *)
(* calls, alone and from two threads, the configuration setters, the       *)
(* construction of a device and the output-voltage query.                  *)
(*                                                                         *)
(* Numbers.  TLC's integers are 32 bits wide, so only an i32 is a plain    *)
(* integer here.  A 32-bit pattern (a u32, or an i32 under a bit           *)
(* operation) is a word [hi, lo] of two 16-bit halves.  An f64 is the      *)
(* exact rational hi * 2^16 + lo + frac / FracDen, with lo in 0..2^16-1    *)
(* and frac in 0..FracDen-1 (so hi carries the sign).  Every f64 the model *)
(* feeds in is such a dyadic rational of moderate size, on which the f64   *)
(* arithmetic of the code (comparisons, casts, multiplications) is exact.  *)
(***************************************************************************)
EXTENDS Integers, Sequences, FiniteSets, TLC

VARIABLES
    pc,         \* "call": the host is about to make `call`; "done": it returned
    call,       \* the API call the host makes (operation, receiver, arguments)
    reqs,       \* the requests the call handed to the transport, in order
    result,     \* what the call returned to the host
    device,     \* what the device holds and answers with: its fault fields, and
                \* the error code of its next answer
    mp,         \* the motion-profile state behind the handle: the top (API
                \* level) buffer, the bottom (firmware) buffer, the underrun
                \* flags, the point being executed, the output state, the
                \* points moved from top to bottom so far, and the holder
                \* of the library's motion-profile mutex
    pushed      \* the points the host has pushed successfully since the
                \* buffers were last empty, in order

vars == <<pc, call, reqs, result, device, mp, pushed>>

---------------------------------------------------------------------------
(* Bounds of the model *)

\* an f64 of the model is a multiple of 1 / 2^FracBits
FracBits == 4

\* the capacity of the bottom buffer, which the firmware fixes
BtmCapacity == 2

\* the host pushes at most this many points before it clears the buffers
MaxPoints == 4

\* the longest timeout a configuration call is given, in milliseconds
MaxTimeout == 3

---------------------------------------------------------------------------
(* 32-bit words *)

Pow2(n) == 2 ^ n

Half == Pow2(16)

FracDen == Pow2(FracBits)

\* i32::MAX = 2^31 - 1 and i32::MIN = -2^31
I32Max == ((Half \div 2) - 1) * Half + (Half - 1)
I32Min == -I32Max - 1

RECURSIVE OrNat(_, _)
OrNat(a, b) ==
    IF a = 0 THEN b
    ELSE IF b = 0 THEN a
    ELSE (IF a % 2 = 1 \/ b % 2 = 1 THEN 1 ELSE 0) + 2 * OrNat(a \div 2, b \div 2)

RECURSIVE AndNat(_, _)
AndNat(a, b) ==
    IF a = 0 \/ b = 0 THEN 0
    ELSE (IF a % 2 = 1 /\ b % 2 = 1 THEN 1 ELSE 0) + 2 * AndNat(a \div 2, b \div 2)

\* the bit pattern of the i32 n (also: n as u32)
I32Word(n) == [hi |-> (n \div Half) % Half, lo |-> n % Half]

\* the i32 with the bit pattern w (w as i32)
WordI32(w) == (IF w.hi >= Half \div 2 THEN w.hi - Half ELSE w.hi) * Half + w.lo

ZeroWord == [hi |-> 0, lo |-> 0]
U32MaxWord == [hi |-> Half - 1, lo |-> Half - 1]

OrWord(a, b)  == [hi |-> OrNat(a.hi, b.hi), lo |-> OrNat(a.lo, b.lo)]
AndWord(a, b) == [hi |-> AndNat(a.hi, b.hi), lo |-> AndNat(a.lo, b.lo)]

\* w << k, 0 <= k < 32: the bits shifted out at the top are dropped
ShlWord(w, k) ==
    IF k >= 16
    THEN [hi |-> (w.lo * Pow2(k - 16)) % Half, lo |-> 0]
    ELSE [hi |-> ((w.hi * Pow2(k)) % Half) + (w.lo \div Pow2(16 - k)),
          lo |-> (w.lo * Pow2(k)) % Half]

\* w >> k on a u32, 0 <= k < 32: zeros come in at the top
ShrWord(w, k) ==
    IF k >= 16
    THEN [hi |-> 0, lo |-> w.hi \div Pow2(k - 16)]
    ELSE [hi |-> w.hi \div Pow2(k),
          lo |-> ((w.hi % Pow2(k)) * Pow2(16 - k)) + (w.lo \div Pow2(k))]

\* Rust's |, &, << and >> on i32 (>> copies the sign bit, it is a floor division)
OrI32(a, b)  == WordI32(OrWord(I32Word(a), I32Word(b)))
AndI32(a, b) == WordI32(AndWord(I32Word(a), I32Word(b)))
ShlI32(a, k) == WordI32(ShlWord(I32Word(a), k))
ShrI32(a, k) == IF k >= 16 THEN (a \div Half) \div Pow2(k - 16) ELSE a \div Pow2(k)

---------------------------------------------------------------------------
(* f64 *)

\* the f64 n + f / FracDen, for an integer n and 0 <= f < FracDen
F64(n, f) == [hi |-> n \div Half, lo |-> n % Half, frac |-> f]

\* n as f64, for an i32 n; w as f64, for a u32 w: both are exact
I32AsF64(n) == F64(n, 0)
U32AsF64(w) == [hi |-> w.hi, lo |-> w.lo, frac |-> 0]

F64Leq(x, y) ==
    \/ x.hi < y.hi
    \/ x.hi = y.hi /\ x.lo < y.lo
    \/ x.hi = y.hi /\ x.lo = y.lo /\ x.frac <= y.frac

\* 1000.0 * x
Mul1000(x) ==
    LET f  == x.frac * 1000
        lo == (x.lo * 1000) + (f \div FracDen)
    IN  [hi |-> (x.hi * 1000) + (lo \div Half), lo |-> lo % Half, frac |-> f % FracDen]

\* x rounded toward zero: the integer hi * 2^16 + lo
Trunc(x) ==
    IF x.hi >= 0 \/ x.frac = 0 THEN [hi |-> x.hi, lo |-> x.lo]
    ELSE IF x.lo = Half - 1 THEN [hi |-> x.hi + 1, lo |-> 0]
    ELSE [hi |-> x.hi, lo |-> x.lo + 1]

\* Rust's `x as u32` and `x as i32` on an f64: toward zero, saturating at the
\* ends of the type
F64AsU32(x) ==
    LET t == Trunc(x)
    IN  IF t.hi < 0 THEN ZeroWord
        ELSE IF t.hi >= Half THEN U32MaxWord
        ELSE t

F64AsI32(x) ==
    LET t == Trunc(x)
    IN  IF t.hi >= Half \div 2 THEN I32Max
        ELSE IF t.hi < -(Half \div 2) THEN I32Min
        ELSE (t.hi * Half) + t.lo

---------------------------------------------------------------------------
(* Results *)

\* nothing returned yet; () returned; Ok(value); Err(code)
NoResult == [kind |-> "none"]
Unit == [kind |-> "unit"]
Ok(value) == [kind |-> "Ok", value |-> value]
Err(code) == [kind |-> "Err", code |-> code]
\* an error code returned beside a struct the call filled in place
Filled(code, status_to_fill) ==
    [kind |-> "Filled", code |-> code, status_to_fill |-> status_to_fill]

\* ErrorCode: OK and the codes that are not OK
ErrorCodes == {"OK", "E1", "E2"}

\* a device the call at hand does not talk to
IdleDevice == [faults |-> 0, sticky_faults |-> 0, status |-> "OK"]

\* the motion-profile state of a device that was just created
EmptyProfile ==
    [top |-> <<>>, btm |-> <<>>, has_underrun |-> FALSE, is_underrun |-> FALSE,
     moved |-> <<>>, active |-> <<>>, output_enable |-> 0, mutex |-> "free"]

---------------------------------------------------------------------------
(* Devices *)

\* the family tags new() ORs into the device number
TalonSRXTag == 33816576     \* 0x02040000
VictorSPXTag == 17039360    \* 0x01040000

\* `device_number` - [0,62]
MaxDeviceNumber == 62

Families == {"TalonSRX", "VictorSPX"}

\* FamilyTag with the tag of TalonSRX for both families
FamilyTagTalonOnly(family) == TalonSRXTag

FamilyTag(family) == IF family = "TalonSRX" THEN TalonSRXTag ELSE VictorSPXTag

\* c_MotController_Create1(arb_id): the handle stands for the device created
\* for that arbitration id
c_MotController_Create1(arb_id) == arb_id

\* TalonSRX::new and VictorSPX::new; device_number is not checked
new(family, device_number) ==
    LET arb_id == OrI32(device_number, FamilyTag(family))
    IN  [family |-> family, handle |-> c_MotController_Create1(arb_id), arb_id |-> arb_id]

handle(self) == self.handle
get_base_id(self) == self.arb_id

\* the device numbers the host constructs devices with: the documented range
\* and a few outside it, which new() accepts as well
DeviceNumbers == (0 .. MaxDeviceNumber) \cup {-1, MaxDeviceNumber + 1, 256}

Devices == {new(family, n) : family \in Families, n \in DeviceNumbers}

---------------------------------------------------------------------------
(* Control dispatcher *)

ControlModes ==
    {"Disabled", "PercentOutput", "Follower", "Velocity", "Position", "Current",
     "MotionMagic", "MotionProfile", "MotionProfileArc"}

DemandTypes == {"Neutral", "AuxPID", "ArbitraryFeedForward"}

FollowerTypes == {"PercentOutput", "AuxOutput1"}

\* the two requests set() hands to the transport: Set_4 carries the demands as
\* f64, SetDemand as integers (the Disabled branch passes the literals 0, 0)
c_MotController_Set_4(h, mode, demand0, demand1, demand1Type) ==
    [fn |-> "c_MotController_Set_4", handle |-> h, mode |-> mode,
     demand0 |-> demand0, demand1 |-> demand1, demand1Type |-> demand1Type]

c_MotController_SetDemand(h, mode, demand0, demand1) ==
    [fn |-> "c_MotController_SetDemand", handle |-> h, mode |-> mode,
     demand0 |-> demand0, demand1 |-> demand1]

\* 0.0 <= demand0 && demand0 <= 62.0
IsDeviceId(demand0) ==
    F64Leq(F64(0, 0), demand0) /\ F64Leq(demand0, F64(MaxDeviceNumber, 0))

\* FollowerWork with the caller's id not shifted down: the low address bits leak in
FollowerWorkWholeId(self, demand0) ==
    IF IsDeviceId(demand0)
    THEN OrWord(ShlWord(I32Word(get_base_id(self)), 8), F64AsU32(demand0))
    ELSE F64AsU32(demand0)

\* FollowerWork without the range test: every demand0 is re-derived
FollowerWorkAlwaysDerive(self, demand0) ==
    OrWord(ShlWord(ShrWord(I32Word(get_base_id(self)), 16), 8), F64AsU32(demand0))

\* the Follower branch's `work`: a u32
FollowerWork(self, demand0) ==
    IF IsDeviceId(demand0)
    THEN OrWord(ShlWord(ShrWord(I32Word(get_base_id(self)), 16), 8), F64AsU32(demand0))
    ELSE F64AsU32(demand0)

\* CurrentDemand without the conversion to milliamps
CurrentDemandAmps(demand0) == F64AsI32(demand0)

\* the Current branch's demand: (1000.0 * demand0) as an integer, milliamps
CurrentDemand(demand0) == F64AsI32(Mul1000(demand0))

PassThroughModes ==
    {"PercentOutput", "Velocity", "Position", "MotionMagic", "MotionProfile",
     "MotionProfileArc"}

\* the four arms of set's match on mode
SetFollower(self, mode, demand0, demand1_type, demand1) ==
    <<c_MotController_Set_4(handle(self), mode, U32AsF64(FollowerWork(self, demand0)),
                            demand1, demand1_type)>>

SetCurrent(self, mode, demand0, demand1_type, demand1) ==
    <<c_MotController_SetDemand(handle(self), mode, CurrentDemand(demand0), 0)>>

\* SetPassThrough with the two demands in each other's place
SetPassThroughSwapped(self, mode, demand0, demand1_type, demand1) ==
    <<c_MotController_Set_4(handle(self), mode, demand1, demand0, demand1_type)>>

SetPassThrough(self, mode, demand0, demand1_type, demand1) ==
    <<c_MotController_Set_4(handle(self), mode, demand0, demand1, demand1_type)>>

\* SetDisabled forwarding the caller's demand0
SetDisabledKeepsDemand(self, mode, demand0, demand1_type, demand1) ==
    <<c_MotController_SetDemand(handle(self), mode, F64AsI32(demand0), 0)>>

SetDisabled(self, mode, demand0, demand1_type, demand1) ==
    <<c_MotController_SetDemand(handle(self), mode, 0, 0)>>

\* BaseMotorController::set: the requests it issues
set(self, mode, demand0, demand1_type, demand1) ==
    CASE mode = "Follower" -> SetFollower(self, mode, demand0, demand1_type, demand1)
      [] mode = "Current" -> SetCurrent(self, mode, demand0, demand1_type, demand1)
      [] mode \in PassThroughModes ->
            SetPassThrough(self, mode, demand0, demand1_type, demand1)
      [] mode = "Disabled" -> SetDisabled(self, mode, demand0, demand1_type, demand1)

\* BaseMotorController::neutral_output
neutral_output(self) == set(self, "Disabled", F64(0, 0), "Neutral", F64(0, 0))

\* Id24 without the repacking: the 32-bit base id itself
Id24NoRepack(base_id) == base_id

\* follow's id24
Id24(base_id) == OrI32(ShlI32(ShrI32(base_id, 16), 8), AndI32(base_id, 255))

\* FollowDemandType ignoring the follower type
FollowDemandTypeNeutral(follower_type) == "Neutral"

FollowDemandType(follower_type) ==
    IF follower_type = "PercentOutput" THEN "Neutral" ELSE "AuxPID"

\* follow deriving the id from the follower instead of the master
followOwnId(self, master_to_follow, follower_type) ==
    set(self, "Follower", I32AsF64(Id24(get_base_id(self))),
        FollowDemandType(follower_type), F64(0, 0))

\* BaseMotorController::follow
follow(self, master_to_follow, follower_type) ==
    set(self, "Follower", I32AsF64(Id24(get_base_id(master_to_follow))),
        FollowDemandType(follower_type), F64(0, 0))

---------------------------------------------------------------------------
(* The host's calls into the dispatcher *)

\* demand0 values tried in Follower mode: every device number, values between
\* device numbers, values just outside [0, 62], negative values, the 24-bit
\* ids follow() computes, and values at and beyond the ends of u32
FollowerDemands ==
    {F64(n, 0) : n \in 0 .. MaxDeviceNumber}
    \cup {F64(n, FracDen \div 2) : n \in {0, 1, MaxDeviceNumber - 1}}
    \cup {F64(MaxDeviceNumber, 1), F64(MaxDeviceNumber + 1, 0),
          F64(MaxDeviceNumber + 1, FracDen \div 2)}
    \cup {F64(-1, FracDen \div 2), F64(-1, 0), F64(-70000, 0)}
    \cup {I32AsF64(Id24(get_base_id(new(f, n)))) : f \in Families, n \in {0, 5}}
    \cup {F64(100000000, 0)}
    \cup {[hi |-> Half - 1, lo |-> Half - 1, frac |-> 0],
          [hi |-> Half - 1, lo |-> Half - 1, frac |-> 1],
          [hi |-> Half, lo |-> 0, frac |-> 0],
          [hi |-> 3 * Half, lo |-> 7, frac |-> 0]}

\* demand0 values tried in the other modes: small, fractional, negative, and
\* amperes whose milliamps do not fit an i32
Demands ==
    {F64(0, 0), F64(0, 1), F64(0, FracDen \div 2), F64(1, 0), F64(40, 0),
     F64(-1, FracDen \div 2), F64(-1, 0), F64(-2, FracDen - 1),
     F64(2147483, FracDen - 1), F64(3000000, 0), F64(-3000000, 0)}

Demands1 == {F64(0, 0), F64(-1, FracDen \div 2), F64(7, 0)}

NoArgs ==
    [mode |-> "Disabled", demand0 |-> F64(0, 0), demand1_type |-> "Neutral",
     demand1 |-> F64(0, 0), follower_type |-> "PercentOutput"]

SetCall(d, m, d0, t, d1) ==
    [op |-> "set", self |-> d, master |-> d, mode |-> m, demand0 |-> d0,
     demand1_type |-> t, demand1 |-> d1, follower_type |-> NoArgs.follower_type]

NeutralOutputCall(d) ==
    [op |-> "neutral_output", self |-> d, master |-> d, mode |-> NoArgs.mode,
     demand0 |-> NoArgs.demand0, demand1_type |-> NoArgs.demand1_type,
     demand1 |-> NoArgs.demand1, follower_type |-> NoArgs.follower_type]

FollowCall(d, m, ft) ==
    [op |-> "follow", self |-> d, master |-> m, mode |-> NoArgs.mode,
     demand0 |-> NoArgs.demand0, demand1_type |-> NoArgs.demand1_type,
     demand1 |-> NoArgs.demand1, follower_type |-> ft]

InitDispatch ==
    /\ pc = "call"
    /\ reqs = <<>>
    /\ result = NoResult
    /\ device = IdleDevice
    /\ mp = EmptyProfile
    /\ pushed = <<>>
    /\ \/ \E d \in Devices, d0 \in FollowerDemands, t \in DemandTypes, d1 \in Demands1 :
            call = SetCall(d, "Follower", d0, t, d1)
       \/ \E d \in Devices, m \in ControlModes \ {"Follower"}, d0 \in Demands,
             t \in DemandTypes, d1 \in Demands1 :
            call = SetCall(d, m, d0, t, d1)
       \/ \E d \in Devices : call = NeutralOutputCall(d)
       \/ \E d \in Devices, m \in Devices, ft \in FollowerTypes :
            call = FollowCall(d, m, ft)

Set ==
    /\ pc = "call" /\ call.op = "set"
    /\ reqs' = set(call.self, call.mode, call.demand0, call.demand1_type, call.demand1)
    /\ pc' = "done" /\ result' = Unit
    /\ UNCHANGED <<call, device, mp, pushed>>

NeutralOutput ==
    /\ pc = "call" /\ call.op = "neutral_output"
    /\ reqs' = neutral_output(call.self)
    /\ pc' = "done" /\ result' = Unit
    /\ UNCHANGED <<call, device, mp, pushed>>

Follow ==
    /\ pc = "call" /\ call.op = "follow"
    /\ reqs' = follow(call.self, call.master, call.follower_type)
    /\ pc' = "done" /\ result' = Unit
    /\ UNCHANGED <<call, device, mp, pushed>>

NextDispatch == Set \/ NeutralOutput \/ Follow

\* one call of the dispatcher on arbitrary arguments: set, neutral_output and
\* follow keep no state of their own, so a call's requests depend on nothing
\* but its receiver and arguments
SpecDispatch == InitDispatch /\ [][NextDispatch]_vars

---------------------------------------------------------------------------
(* Fault decoder *)

\* self.0 & (1 << k) != 0
FaultBit(raw, k) == AndI32(raw, ShlI32(1, k)) # 0

Faults_under_voltage(self)         == FaultBit(self, 0)
Faults_forward_limit_switch(self)  == FaultBit(self, 1)
Faults_reverse_limit_switch(self)  == FaultBit(self, 2)
Faults_forward_soft_limit(self)    == FaultBit(self, 3)
Faults_reverse_soft_limit(self)    == FaultBit(self, 4)
Faults_hardware_failure(self)      == FaultBit(self, 5)
Faults_reset_during_en(self)       == FaultBit(self, 6)
Faults_sensor_overflow(self)       == FaultBit(self, 7)
Faults_sensor_out_of_phase(self)   == FaultBit(self, 8)
Faults_hardware_esd_reset(self)    == FaultBit(self, 9)
Faults_remote_loss_of_signal(self) == FaultBit(self, 10)

\* Faults::has_any_fault looking at the bits that have a name only
Faults_has_any_fault_named(self) == AndI32(self, 2047) # 0

Faults_has_any_fault(self)         == self # 0

StickyFaults_under_voltage(self)         == FaultBit(self, 0)
StickyFaults_forward_limit_switch(self)  == FaultBit(self, 1)
StickyFaults_reverse_limit_switch(self)  == FaultBit(self, 2)
StickyFaults_forward_soft_limit(self)    == FaultBit(self, 3)
StickyFaults_reverse_soft_limit(self)    == FaultBit(self, 4)

\* StickyFaults::reset_during_en reading the bit Faults reads it from
StickyFaults_reset_during_en_bit6(self) == FaultBit(self, 6)

StickyFaults_reset_during_en(self)       == FaultBit(self, 5)
StickyFaults_sensor_overflow(self)       == FaultBit(self, 6)
StickyFaults_sensor_out_of_phase(self)   == FaultBit(self, 7)
StickyFaults_hardware_esd_reset(self)    == FaultBit(self, 8)

\* StickyFaults::remote_loss_of_signal reading the bit Faults reads it from
StickyFaults_remote_loss_of_signal_bit10(self) == FaultBit(self, 10)

StickyFaults_remote_loss_of_signal(self) == FaultBit(self, 9)
StickyFaults_has_any_fault(self)         == self # 0

\* the named accessors of each type, by name
FaultsFlags(self) ==
    [under_voltage         |-> Faults_under_voltage(self),
     forward_limit_switch  |-> Faults_forward_limit_switch(self),
     reverse_limit_switch  |-> Faults_reverse_limit_switch(self),
     forward_soft_limit    |-> Faults_forward_soft_limit(self),
     reverse_soft_limit    |-> Faults_reverse_soft_limit(self),
     hardware_failure      |-> Faults_hardware_failure(self),
     reset_during_en       |-> Faults_reset_during_en(self),
     sensor_overflow       |-> Faults_sensor_overflow(self),
     sensor_out_of_phase   |-> Faults_sensor_out_of_phase(self),
     hardware_esd_reset    |-> Faults_hardware_esd_reset(self),
     remote_loss_of_signal |-> Faults_remote_loss_of_signal(self)]

StickyFaultsFlags(self) ==
    [under_voltage         |-> StickyFaults_under_voltage(self),
     forward_limit_switch  |-> StickyFaults_forward_limit_switch(self),
     reverse_limit_switch  |-> StickyFaults_reverse_limit_switch(self),
     forward_soft_limit    |-> StickyFaults_forward_soft_limit(self),
     reverse_soft_limit    |-> StickyFaults_reverse_soft_limit(self),
     reset_during_en       |-> StickyFaults_reset_during_en(self),
     sensor_overflow       |-> StickyFaults_sensor_overflow(self),
     sensor_out_of_phase   |-> StickyFaults_sensor_out_of_phase(self),
     hardware_esd_reset    |-> StickyFaults_hardware_esd_reset(self),
     remote_loss_of_signal |-> StickyFaults_remote_loss_of_signal(self)]

\* cci_get_call!(f(handle, _: T)): the value the device wrote if it answered
\* OK, its error code otherwise
cci_get_call(value, status) == IF status = "OK" THEN Ok(value) ELSE Err(status)

\* get_faults answering an error with an empty Faults
get_faults_or_zero(dev) == IF dev.status = "OK" THEN Ok(dev.faults) ELSE Ok(0)

\* BaseMotorController::get_faults and get_sticky_faults: the raw field is
\* wrapped as it came, an error is handed on
get_faults(dev) == cci_get_call(dev.faults, dev.status)
get_sticky_faults(dev) == cci_get_call(dev.sticky_faults, dev.status)

\* the i32 with bit k alone set
OneBit(k) == WordI32(ShlWord([hi |-> 0, lo |-> 1], k))

\* raw fields the device is tried with: nothing set, each bit alone, and
\* several bits at once (all of them; two mapped ones; mapped and unmapped)
RawFields ==
    {0, -1, 3, 1536, 2049, I32Max} \cup {OneBit(k) : k \in 0 .. 31}

---------------------------------------------------------------------------
(* Motion-profile buffers *)

Min(a, b) == IF a <= b THEN a ELSE b

\* the n-th trajectory point the host pushes: its position tells the points
\* apart, and the last one the host has is marked as such
\* The slot selectors of a point are u32 (words) and its duration is a
\* TrajectoryDuration; the library takes all three as c_int.
TrajectoryPoint(n) ==
    [position |-> I32AsF64(n), velocity |-> F64(0, 1), auxiliary_pos |-> F64(-1, 0),
     profile_slot_select_0 |-> I32Word(n % 4), profile_slot_select_1 |-> I32Word(1),
     is_last_point |-> (n = MaxPoints), zero_pos |-> (n = 1),
     time_dur |-> <<"T0ms", "T10ms", "T20ms">>[(n % 3) + 1]]

\* TrajectoryDuration and `time_dur as _`: the milliseconds a duration stands for
TrajectoryDurations ==
    {"T0ms", "T5ms", "T10ms", "T20ms", "T30ms", "T40ms", "T50ms", "T100ms"}

TrajectoryDurationAsI32(time_dur) ==
    CASE time_dur = "T0ms" -> 0
      [] time_dur = "T5ms" -> 5
      [] time_dur = "T10ms" -> 10
      [] time_dur = "T20ms" -> 20
      [] time_dur = "T30ms" -> 30
      [] time_dur = "T40ms" -> 40
      [] time_dur = "T50ms" -> 50
      [] time_dur = "T100ms" -> 100

\* The device side of the motion-profile calls: what the library and the
\* firmware behind the handle do with a request.

\* a point is appended to the top buffer unless the device reports an error
c_MotController_PushMotionProfileTrajectory_2(dev, position, velocity, auxiliary_pos, slot0, slot1, is_last, zero_pos, time_dur, status) ==
    IF status = "OK"
    THEN [dev EXCEPT !.top = Append(@,
            [position |-> position, velocity |-> velocity,
             auxiliary_pos |-> auxiliary_pos, profile_slot_select_0 |-> slot0,
             profile_slot_select_1 |-> slot1, is_last_point |-> is_last,
             zero_pos |-> zero_pos, time_dur |-> time_dur])]
    ELSE dev

\* as many points as fit are moved from the head of the top buffer to the tail
\* of the bottom buffer
c_MotController_ProcessMotionProfileBuffer(dev) ==
    LET k == Min(Len(dev.top), BtmCapacity - Len(dev.btm))
    IN  [dev EXCEPT !.top = SubSeq(@, k + 1, Len(@)),
                    !.btm = @ \o SubSeq(dev.top, 1, k),
                    !.moved = @ \o SubSeq(dev.top, 1, k)]

\* both buffers are emptied unless the device reports an error
c_MotController_ClearMotionProfileTrajectories(dev, status) ==
    IF status = "OK"
    THEN [dev EXCEPT !.top = <<>>, !.btm = <<>>, !.moved = <<>>]
    ELSE dev

\* the firmware's executer takes the next point off the bottom buffer and
\* makes it the active one; with none there it underruns, which sets the
\* sticky flag too
FirmwareExecute(dev) ==
    IF dev.btm # <<>>
    THEN [dev EXCEPT !.btm = Tail(@), !.active = <<Head(dev.btm)>>,
                     !.is_underrun = FALSE]
    ELSE [dev EXCEPT !.is_underrun = TRUE, !.has_underrun = TRUE]

\* the sticky underrun flag is cleared unless the device reports an error
c_MotController_ClearMotionProfileHasUnderrun(dev, timeout_ms, status) ==
    IF status = "OK" THEN [dev EXCEPT !.has_underrun = FALSE] ELSE dev

\* a MotionProfile request sets the executer's output state to its demand0
\* (0 disable, 1 enable, 2 hold)
FirmwareSet(dev, requests) ==
    IF requests[1].mode = "MotionProfile"
    THEN [dev EXCEPT !.output_enable = F64AsI32(requests[1].demand0)]
    ELSE dev

\* the slots the top buffer has in this model
TopCapacity == MaxPoints

\* the device's answers about the top buffer
c_MotController_GetMotionProfileTopLevelBufferCount(dev) == Len(dev.top)
c_MotController_IsMotionProfileTopLevelBufferFull(dev) == Len(dev.top) >= TopCapacity

\* MotionProfileStatus, its fields and its Default
StatusFields ==
    {"top_buffer_rem", "top_buffer_cnt", "btm_buffer_cnt", "has_underrun",
     "is_underrun", "active_point_valid", "is_last", "profile_slot_select_0",
     "output_enable", "time_dur_ms", "profile_slot_select_1"}

DefaultStatus ==
    [top_buffer_rem |-> 0, top_buffer_cnt |-> 0, btm_buffer_cnt |-> 0,
     has_underrun |-> FALSE, is_underrun |-> FALSE, active_point_valid |-> FALSE,
     is_last |-> FALSE, profile_slot_select_0 |-> 0, output_enable |-> "Disable",
     time_dur_ms |-> 0, profile_slot_select_1 |-> 0]

\* SetValueMotionProfile from the c_int the device reports
SetValueMotionProfile(output_enable) ==
    CASE output_enable = 1 -> "Enable"
      [] output_enable = 2 -> "Hold"
      [] OTHER -> "Disable"

\* what the device reports of its motion-profile state, output_enable as the
\* device's integer
DeviceStatus(dev) ==
    [top_buffer_rem |-> TopCapacity - Len(dev.top),
     top_buffer_cnt |-> Len(dev.top),
     btm_buffer_cnt |-> Len(dev.btm),
     has_underrun |-> dev.has_underrun,
     is_underrun |-> dev.is_underrun,
     active_point_valid |-> dev.active # <<>>,
     is_last |-> IF dev.active # <<>> THEN dev.active[1].is_last_point ELSE FALSE,
     profile_slot_select_0 |->
        IF dev.active # <<>> THEN dev.active[1].profile_slot_select_0 ELSE 0,
     output_enable |-> dev.output_enable,
     time_dur_ms |-> IF dev.active # <<>> THEN dev.active[1].time_dur ELSE 0,
     profile_slot_select_1 |->
        IF dev.active # <<>> THEN dev.active[1].profile_slot_select_1 ELSE 0]

\* the out-parameters a status request writes: all of them when it succeeds;
\* when it fails none of them, the buffer counts, or all of them all the same
Written(status) ==
    IF status = "OK"
    THEN {StatusFields}
    ELSE {{}, {"top_buffer_rem", "top_buffer_cnt", "btm_buffer_cnt"}, StatusFields}

\* the out-parameters after the status request: on OK each holds what the
\* device reports, on an error only those the library wrote regardless
c_MotController_GetMotionProfileStatus_2(dev, out, status, written) ==
    [f \in StatusFields |->
        IF f \in written THEN DeviceStatus(dev)[f] ELSE out[f]]

\* The calls of BaseMotorController, as the state of the device after them.

\* process_motion_profile_buffer handing the request to the wrong entry point
process_motion_profile_buffer_clears(dev) ==
    c_MotController_ClearMotionProfileTrajectories(dev, "OK")

\* push_motion_profile_trajectory forwarding the point twice
push_motion_profile_trajectory_twice(dev, traj_pt, status) ==
    c_MotController_PushMotionProfileTrajectory_2(
        c_MotController_PushMotionProfileTrajectory_2(dev,
            traj_pt.position, traj_pt.velocity, traj_pt.auxiliary_pos,
            WordI32(traj_pt.profile_slot_select_0), WordI32(traj_pt.profile_slot_select_1),
            traj_pt.is_last_point, traj_pt.zero_pos,
        TrajectoryDurationAsI32(traj_pt.time_dur), status),
        traj_pt.position, traj_pt.velocity, traj_pt.auxiliary_pos,
        WordI32(traj_pt.profile_slot_select_0), WordI32(traj_pt.profile_slot_select_1),
        traj_pt.is_last_point, traj_pt.zero_pos,
        TrajectoryDurationAsI32(traj_pt.time_dur), status)

\* push_motion_profile_trajectory passing the first slot selector for both
push_motion_profile_trajectory_slot0_twice(dev, traj_pt, status) ==
    c_MotController_PushMotionProfileTrajectory_2(dev,
        traj_pt.position, traj_pt.velocity, traj_pt.auxiliary_pos,
        WordI32(traj_pt.profile_slot_select_0), WordI32(traj_pt.profile_slot_select_0),
        traj_pt.is_last_point, traj_pt.zero_pos,
        TrajectoryDurationAsI32(traj_pt.time_dur), status)

\* push_motion_profile_trajectory funnelling the top buffer down as well
push_motion_profile_trajectory_processes(dev, traj_pt, status) ==
    c_MotController_ProcessMotionProfileBuffer(
        c_MotController_PushMotionProfileTrajectory_2(dev,
            traj_pt.position, traj_pt.velocity, traj_pt.auxiliary_pos,
            WordI32(traj_pt.profile_slot_select_0), WordI32(traj_pt.profile_slot_select_1),
            traj_pt.is_last_point, traj_pt.zero_pos,
        TrajectoryDurationAsI32(traj_pt.time_dur), status))

push_motion_profile_trajectory(dev, traj_pt, status) ==
    c_MotController_PushMotionProfileTrajectory_2(dev,
        traj_pt.position, traj_pt.velocity, traj_pt.auxiliary_pos,
        WordI32(traj_pt.profile_slot_select_0), WordI32(traj_pt.profile_slot_select_1),
        traj_pt.is_last_point, traj_pt.zero_pos,
        TrajectoryDurationAsI32(traj_pt.time_dur), status)

process_motion_profile_buffer(dev) == c_MotController_ProcessMotionProfileBuffer(dev)

\* a point the transport holds, read back as a TrajectoryPoint: the c_ints
\* converted back to u32 and to the duration of that many milliseconds
ReadBack(sent) ==
    [sent EXCEPT !.profile_slot_select_0 = I32Word(@),
                 !.profile_slot_select_1 = I32Word(@),
                 !.time_dur = CHOOSE d \in TrajectoryDurations :
                                  TrajectoryDurationAsI32(d) = sent.time_dur]

\* a buffer of the transport, read back point by point
Echoed(points) == [i \in 1 .. Len(points) |-> ReadBack(points[i])]

\* the n-th point of the host as the transport holds it
Stored(n) == push_motion_profile_trajectory(EmptyProfile, TrajectoryPoint(n), "OK").top[1]

\* clear_motion_profile_trajectories clearing the underrun flag as well
clear_motion_profile_trajectories_and_flag(dev, status) ==
    c_MotController_ClearMotionProfileHasUnderrun(
        c_MotController_ClearMotionProfileTrajectories(dev, status), 0, status)

\* clear_motion_profile_trajectories handing the request to the wrong entry
\* point
clear_motion_profile_trajectories_processes(dev, status) ==
    c_MotController_ProcessMotionProfileBuffer(dev)

clear_motion_profile_trajectories(dev, status) ==
    c_MotController_ClearMotionProfileTrajectories(dev, status)

\* get_motion_profile_status: the caller's struct is the out-parameters, but
\* for output_enable, which goes through a local that starts at 0 and is
\* converted into the struct whatever the code is
get_motion_profile_status(dev, status_to_fill, status, written) ==
    LET out == c_MotController_GetMotionProfileStatus_2(dev,
                   [status_to_fill EXCEPT !.output_enable = 0], status, written)
    IN  Filled(status, [out EXCEPT !.output_enable = SetValueMotionProfile(@)])

\* get_new_motion_profile_status: a fresh struct is filled and handed out on OK
get_new_motion_profile_status(dev, status, written) ==
    LET filled == get_motion_profile_status(dev, DefaultStatus, status, written)
    IN  IF filled.code = "OK" THEN Ok(filled.status_to_fill) ELSE Err(filled.code)

\* clear_motion_profile_has_underrun handing the request to the wrong entry
\* point
clear_motion_profile_has_underrun_trajectories(dev, timeout_ms, status) ==
    c_MotController_ClearMotionProfileTrajectories(dev, status)

clear_motion_profile_has_underrun(dev, timeout_ms, status) ==
    c_MotController_ClearMotionProfileHasUnderrun(dev, timeout_ms, status)

\* the two queries of the top buffer
get_motion_profile_top_level_buffer_count(dev, status) ==
    cci_get_call(c_MotController_GetMotionProfileTopLevelBufferCount(dev), status)

is_motion_profile_top_level_buffer_full(dev, status) ==
    cci_get_call(c_MotController_IsMotionProfileTopLevelBufferFull(dev), status)

\* timeouts the host passes: none, and some milliseconds
Timeouts == {0, 10}

\* a struct the host kept from a query made while the profile was running
EarlierStatus ==
    [DefaultStatus EXCEPT !.top_buffer_rem = TopCapacity - 1, !.top_buffer_cnt = 1,
                          !.btm_buffer_cnt = 1, !.active_point_valid = TRUE,
                          !.output_enable = "Enable", !.time_dur_ms = 10]

Init ==
    /\ pc = "idle"
    /\ call = [op |-> "new"]
    /\ reqs = <<>>
    /\ result = NoResult
    /\ device = IdleDevice
    /\ mp = EmptyProfile
    /\ pushed = <<>>

\* the host pushes its next point; the device accepts it or reports an error
Push ==
    /\ Len(pushed) < MaxPoints
    /\ \E status \in ErrorCodes :
          LET traj_pt == TrajectoryPoint(Len(pushed) + 1)
          IN  /\ mp' = push_motion_profile_trajectory(mp, traj_pt, status)
              /\ pushed' = IF status = "OK" THEN Append(pushed, traj_pt) ELSE pushed
              /\ result' = IF status = "OK" THEN Ok("OK") ELSE Err(status)
    /\ call' = [op |-> "push_motion_profile_trajectory"]
    /\ UNCHANGED <<pc, reqs, device>>

Process ==
    /\ mp' = process_motion_profile_buffer(mp)
    /\ call' = [op |-> "process_motion_profile_buffer"]
    /\ result' = Unit
    /\ UNCHANGED <<pc, reqs, device, pushed>>

ClearTrajectories ==
    /\ call' = [op |-> "clear_motion_profile_trajectories"]
    /\ \E status \in ErrorCodes :
          /\ mp' = clear_motion_profile_trajectories(mp, status)
          /\ pushed' = IF status = "OK" THEN <<>> ELSE pushed
          /\ result' = IF status = "OK" THEN Ok("OK") ELSE Err(status)
    /\ UNCHANGED <<pc, reqs, device>>

\* the firmware executes the profile while the host is between two calls
Execute ==
    /\ mp' = FirmwareExecute(mp)
    /\ UNCHANGED <<pc, call, reqs, result, device, pushed>>

ClearHasUnderrun ==
    /\ \E status \in ErrorCodes, timeout_ms \in Timeouts :
          /\ call' = [op |-> "clear_motion_profile_has_underrun",
                      timeout_ms |-> timeout_ms]
          /\ mp' = clear_motion_profile_has_underrun(mp, timeout_ms, status)
          /\ result' = IF status = "OK" THEN Ok("OK") ELSE Err(status)
    /\ UNCHANGED <<pc, reqs, device, pushed>>

\* the host has a struct filled: a fresh one, or one it kept from earlier
GetStatus ==
    /\ \E status \in ErrorCodes, status_to_fill \in {DefaultStatus, EarlierStatus} :
          \E written \in Written(status) :
              result' = get_motion_profile_status(mp, status_to_fill, status, written)
    /\ call' = [op |-> "get_motion_profile_status"]
    /\ UNCHANGED <<pc, reqs, device, mp, pushed>>

GetNewStatus ==
    /\ \E status \in ErrorCodes : \E written \in Written(status) :
          result' = get_new_motion_profile_status(mp, status, written)
    /\ call' = [op |-> "get_new_motion_profile_status"]
    /\ UNCHANGED <<pc, reqs, device, mp, pushed>>

\* the host sets the executer's output through set(MotionProfile, value)
SetMotionProfile ==
    /\ \E value \in 0 .. 2 :
          mp' = FirmwareSet(mp, set(new("TalonSRX", 0), "MotionProfile",
                                    I32AsF64(value), "Neutral", F64(0, 0)))
    /\ call' = [op |-> "set"]
    /\ result' = Unit
    /\ UNCHANGED <<pc, reqs, device, pushed>>

GetTopLevelBufferCount ==
    /\ call' = [op |-> "get_motion_profile_top_level_buffer_count"]
    /\ \E status \in ErrorCodes :
          result' = get_motion_profile_top_level_buffer_count(mp, status)
    /\ UNCHANGED <<pc, reqs, device, mp, pushed>>

IsTopLevelBufferFull ==
    /\ call' = [op |-> "is_motion_profile_top_level_buffer_full"]
    /\ \E status \in ErrorCodes :
          result' = is_motion_profile_top_level_buffer_full(mp, status)
    /\ UNCHANGED <<pc, reqs, device, mp, pushed>>

Next ==
    \/ Push \/ Process \/ ClearTrajectories \/ Execute
    \/ ClearHasUnderrun \/ GetStatus \/ GetNewStatus \/ SetMotionProfile
    \/ GetTopLevelBufferCount \/ IsTopLevelBufferFull

\* the host's motion-profile calls on one device, in any order, with the
\* firmware executing in between
Spec == Init /\ [][Next]_vars

---------------------------------------------------------------------------
(* A host that stops calling process *)

\* The host feeds the device as in Spec, pushing, processing and clearing,
\* and at some point while the bottom buffer holds points makes its last call
\* of process_motion_profile_buffer; it may go on pushing and clearing.  The
\* firmware's executer is a periodic task of the device: it keeps taking
\* steps, which is the fairness condition.

InitStarved ==
    /\ pc = "feeding"
    /\ call = [op |-> "new"]
    /\ reqs = <<>>
    /\ result = NoResult
    /\ device = IdleDevice
    /\ mp = EmptyProfile
    /\ pushed = <<>>

\* process_motion_profile_buffer, called while the host still calls it
FeedingProcess == pc = "feeding" /\ Process

\* the host has made its last call of process with a profile executing
Starve ==
    /\ pc = "feeding" /\ mp.btm # <<>>
    /\ pc' = "starved"
    /\ UNCHANGED <<call, reqs, result, device, mp, pushed>>

NextStarved == Push \/ FeedingProcess \/ ClearTrajectories \/ Execute \/ Starve

SpecStarved == InitStarved /\ [][NextStarved]_vars /\ WF_vars(Execute)

---------------------------------------------------------------------------
(* Push and process from two threads *)

\* The host calls push_motion_profile_trajectory from one thread and
\* process_motion_profile_buffer from another, on the same device.  A call
\* is not one step: the library takes its mutex and reads the buffers, then
\* writes them, then releases the mutex and returns.

Threads == {"pusher", "processor"}

\* the library's motion-profile mutex: a call waits until it is free
MutexFree(dev) == dev.mutex = "free"

\* thread t enters the library: it takes the mutex and reads the buffers
Begin(t) ==
    /\ pc[t] = "idle"
    /\ MutexFree(mp)
    /\ mp' = [mp EXCEPT !.mutex = t]
    /\ call' = [call EXCEPT ![t].seen = mp]
    /\ pc' = [pc EXCEPT ![t] = "read"]
    /\ UNCHANGED <<reqs, result, device, pushed>>

\* thread t leaves the library: it releases the mutex and the call returns
End(t) ==
    /\ pc[t] = "written"
    /\ mp' = [mp EXCEPT !.mutex = IF @ = t THEN "free" ELSE @]
    /\ pc' = [pc EXCEPT ![t] = "idle"]
    /\ UNCHANGED <<call, reqs, result, device, pushed>>

PusherBegin == Len(pushed) < MaxPoints /\ Begin("pusher")

\* the top buffer becomes the one the pusher read, with its point appended
PusherWrite ==
    /\ pc.pusher = "read"
    /\ \E status \in ErrorCodes :
          LET traj_pt == TrajectoryPoint(Len(pushed) + 1)
              after == push_motion_profile_trajectory(call.pusher.seen, traj_pt, status)
          IN  /\ mp' = [mp EXCEPT !.top = after.top]
              /\ pushed' = IF status = "OK" THEN Append(pushed, traj_pt) ELSE pushed
              /\ result' = [result EXCEPT
                               !.pusher = IF status = "OK" THEN Ok("OK") ELSE Err(status)]
    /\ pc' = [pc EXCEPT !.pusher = "written"]
    /\ UNCHANGED <<call, reqs, device>>

PusherEnd == pc.pusher = "written" /\ End("pusher")

ProcessorBegin == pc.processor = "idle" /\ Begin("processor")

\* the top buffer becomes the one the processor read without the points it
\* moves, and these are sent to the device, which appends them to the bottom
\* buffer
ProcessorWrite ==
    /\ pc.processor = "read"
    /\ LET seen == call.processor.seen
           after == process_motion_profile_buffer(seen)
           sent == SubSeq(after.moved, Len(seen.moved) + 1, Len(after.moved))
       IN  mp' = [mp EXCEPT !.top = after.top, !.btm = @ \o sent, !.moved = @ \o sent]
    /\ result' = [result EXCEPT !.processor = Unit]
    /\ pc' = [pc EXCEPT !.processor = "written"]
    /\ UNCHANGED <<call, reqs, device, pushed>>

ProcessorEnd == pc.processor = "written" /\ End("processor")

InitThreads ==
    /\ pc = [t \in Threads |-> "idle"]
    /\ call = [pusher |-> [op |-> "push_motion_profile_trajectory", seen |-> EmptyProfile],
               processor |-> [op |-> "process_motion_profile_buffer", seen |-> EmptyProfile]]
    /\ reqs = <<>>
    /\ result = [t \in Threads |-> NoResult]
    /\ device = IdleDevice
    /\ mp = EmptyProfile
    /\ pushed = <<>>

NextThreads ==
    \/ PusherBegin \/ PusherWrite \/ PusherEnd
    \/ ProcessorBegin \/ ProcessorWrite \/ ProcessorEnd
    \/ Execute

\* two host threads, one pushing and one processing, with the firmware
\* executing in between
SpecThreads == InitThreads /\ [][NextThreads]_vars

---------------------------------------------------------------------------
(* Configuration setters *)

\* a request to one of the library's configuration entry points
ConfigRequest(fn, h, value, timeout_ms) ==
    [fn |-> fn, handle |-> h, value |-> value, timeout_ms |-> timeout_ms]

\* config_voltage_comp_saturation with the timeout left out
config_voltage_comp_saturation_no_timeout(self, voltage, timeout_ms) ==
    ConfigRequest("c_MotController_ConfigVoltageCompSaturation", handle(self), voltage, 0)

config_voltage_comp_saturation(self, voltage, timeout_ms) ==
    ConfigRequest("c_MotController_ConfigVoltageCompSaturation", handle(self),
                  voltage, timeout_ms)

config_set_parameter(self, param, value, sub_value, ordinal, timeout_ms) ==
    [fn |-> "c_MotController_ConfigSetParameter", handle |-> handle(self),
     param |-> param, value |-> value, sub_value |-> sub_value,
     ordinal |-> ordinal, timeout_ms |-> timeout_ms]

\* `invert as i8 as f64`
BoolAsF64(b) == IF b THEN F64(1, 0) ELSE F64(0, 0)

config_aux_pid_polarity(self, invert, timeout_ms) ==
    config_set_parameter(self, "PIDLoopPolarity", BoolAsF64(invert), 0, 1, timeout_ms)

config_peak_current_limit(self, amps, timeout_ms) ==
    ConfigRequest("c_MotController_ConfigPeakCurrentLimit", handle(self), amps, timeout_ms)

\* config_peak_current_duration calling a duration entry point
config_peak_current_duration_setter(self, milliseconds, timeout_ms) ==
    ConfigRequest("c_MotController_ConfigPeakCurrentDuration", handle(self),
                  milliseconds, timeout_ms)

config_peak_current_duration(self, milliseconds, timeout_ms) ==
    ConfigRequest("c_MotController_ConfigPeakCurrentLimit", handle(self),
                  milliseconds, timeout_ms)

ConfigSetters ==
    {"config_voltage_comp_saturation", "config_set_parameter", "config_aux_pid_polarity",
     "config_peak_current_limit", "config_peak_current_duration"}

\* the request the setter named by the call makes
ConfigSetterRequest(c) ==
    CASE c.op = "config_voltage_comp_saturation" ->
            config_voltage_comp_saturation(c.self, I32AsF64(c.value), c.timeout_ms)
      [] c.op = "config_set_parameter" ->
            config_set_parameter(c.self, "ProfileParamSlot_P", I32AsF64(c.value), 0, 0,
                                 c.timeout_ms)
      [] c.op = "config_aux_pid_polarity" ->
            config_aux_pid_polarity(c.self, c.value # 0, c.timeout_ms)
      [] c.op = "config_peak_current_limit" ->
            config_peak_current_limit(c.self, c.value, c.timeout_ms)
      [] c.op = "config_peak_current_duration" ->
            config_peak_current_duration(c.self, c.value, c.timeout_ms)

\* the error code of a configuration call whose timeout elapsed
TimedOut == "Timeout"

\* The library behind a configuration entry point: the request is sent
\* once; with a timeout of zero the call returns at once, otherwise it waits
\* until the device confirms or the timeout has elapsed.

\* the device takes the value of a request into the setting its entry point
\* names
DeviceApply(dev, request) ==
    CASE request.fn = "c_MotController_ConfigPeakCurrentLimit" ->
            [dev EXCEPT !.peak_current_limit = request.value]
      [] request.fn = "c_MotController_ConfigPeakCurrentDuration" ->
            [dev EXCEPT !.peak_current_duration = request.value]
      [] OTHER -> dev

InitConfig ==
    /\ pc = "call"
    /\ reqs = <<>>
    /\ result = NoResult
    /\ \E st \in ErrorCodes :
          device = [status |-> st, confirmed |-> FALSE,
                    peak_current_limit |-> 1, peak_current_duration |-> 2]
    /\ \E op \in ConfigSetters, value \in {0, 12}, timeout_ms \in 0 .. MaxTimeout :
          call = [op |-> op, self |-> new("TalonSRX", 0), value |-> value,
                  timeout_ms |-> timeout_ms, waited |-> 0]
    /\ mp = EmptyProfile
    /\ pushed = <<>>

\* the setter hands its request to the library, which sends it
ConfigCall ==
    /\ pc = "call"
    /\ reqs' = <<ConfigSetterRequest(call)>>
    /\ IF reqs'[1].timeout_ms = 0
       THEN pc' = "done" /\ result' = Ok("OK")
       ELSE pc' = "waiting" /\ result' = result
    /\ device' = IF device.status = "OK" THEN DeviceApply(device, reqs'[1]) ELSE device
    /\ UNCHANGED <<call, mp, pushed>>

\* a device that is there confirms the value while the call waits
ConfigConfirm ==
    /\ pc = "waiting" /\ device.status = "OK"
    /\ device' = [device EXCEPT !.confirmed = TRUE]
    /\ pc' = "done" /\ result' = Ok("OK")
    /\ UNCHANGED <<call, reqs, mp, pushed>>

\* a millisecond passes while the call waits
ConfigTick ==
    /\ pc = "waiting" /\ call.waited < reqs[1].timeout_ms
    /\ call' = [call EXCEPT !.waited = @ + 1]
    /\ UNCHANGED <<pc, reqs, result, device, mp, pushed>>

\* the timeout has elapsed without a confirmation
ConfigTimeout ==
    /\ pc = "waiting" /\ call.waited = reqs[1].timeout_ms
    /\ pc' = "done" /\ result' = Err(TimedOut)
    /\ UNCHANGED <<call, reqs, device, mp, pushed>>

NextConfig == ConfigCall \/ ConfigConfirm \/ ConfigTick \/ ConfigTimeout

\* one call of a configuration setter against a device that confirms in
\* time, late or not at all
SpecConfig == InitConfig /\ [][NextConfig]_vars

---------------------------------------------------------------------------
(* Snapshot queries *)

FaultsCall(op, d) ==
    [op |-> op, self |-> d, master |-> d, mode |-> NoArgs.mode,
     demand0 |-> NoArgs.demand0, demand1_type |-> NoArgs.demand1_type,
     demand1 |-> NoArgs.demand1, follower_type |-> NoArgs.follower_type]

\* a status query: its operation, its receiver and, for the query that fills
\* in place, the caller's struct
StatusCall(op, d, status_to_fill) ==
    [op |-> op, self |-> d, status_to_fill |-> status_to_fill]

\* a device in the middle of a profile: an underrun before the first point,
\* then three points pushed, two of them moved down and one of those taken
\* up by the executer, with the output enabled
RunningProfile ==
    [top |-> <<Stored(3)>>, btm |-> <<Stored(2)>>,
     has_underrun |-> TRUE, is_underrun |-> FALSE,
     moved |-> <<Stored(1), Stored(2)>>,
     active |-> <<Stored(1)>>, output_enable |-> 1, mutex |-> "free"]

InitFaults ==
    /\ pc = "call"
    /\ reqs = <<>>
    /\ result = NoResult
    /\ \/ /\ \E f \in RawFields, sf \in RawFields, st \in ErrorCodes :
                device = [faults |-> f, sticky_faults |-> sf, status |-> st]
          /\ \E op \in {"get_faults", "get_sticky_faults"} :
                call = FaultsCall(op, new("TalonSRX", 0))
          /\ mp = EmptyProfile
          /\ pushed = <<>>
       \/ /\ \E st \in ErrorCodes : device = [IdleDevice EXCEPT !.status = st]
          /\ \/ call = StatusCall("get_new_motion_profile_status",
                                   new("TalonSRX", 0), DefaultStatus)
             \/ \E status_to_fill \in {DefaultStatus, EarlierStatus} :
                   call = StatusCall("get_motion_profile_status",
                                     new("TalonSRX", 0), status_to_fill)
          /\ \/ mp = EmptyProfile /\ pushed = <<>>
             \/ mp = RunningProfile
                /\ pushed = <<TrajectoryPoint(1), TrajectoryPoint(2), TrajectoryPoint(3)>>

GetFaults ==
    /\ pc = "call" /\ call.op = "get_faults"
    /\ result' = get_faults(device)
    /\ pc' = "done"
    /\ UNCHANGED <<call, reqs, device, mp, pushed>>

GetStickyFaults ==
    /\ pc = "call" /\ call.op = "get_sticky_faults"
    /\ result' = get_sticky_faults(device)
    /\ pc' = "done"
    /\ UNCHANGED <<call, reqs, device, mp, pushed>>

\* the caller reads every accessor of the Faults it was handed; the accessors
\* take self by value, so the wrapped field stays what it was
DecodeFaults ==
    /\ pc = "done" /\ call.op = "get_faults" /\ result.kind = "Ok"
    /\ result' = [kind |-> "Flags", raw |-> result.value,
                  flags |-> FaultsFlags(result.value),
                  has_any_fault |-> Faults_has_any_fault(result.value)]
    /\ pc' = "decoded"
    /\ UNCHANGED <<call, reqs, device, mp, pushed>>

DecodeStickyFaults ==
    /\ pc = "done" /\ call.op = "get_sticky_faults" /\ result.kind = "Ok"
    /\ result' = [kind |-> "Flags", raw |-> result.value,
                  flags |-> StickyFaultsFlags(result.value),
                  has_any_fault |-> StickyFaults_has_any_fault(result.value)]
    /\ pc' = "decoded"
    /\ UNCHANGED <<call, reqs, device, mp, pushed>>

GetMotionProfileStatus ==
    /\ pc = "call" /\ call.op = "get_motion_profile_status"
    /\ \E written \in Written(device.status) :
          result' = get_motion_profile_status(mp, call.status_to_fill,
                                              device.status, written)
    /\ pc' = "done"
    /\ UNCHANGED <<call, reqs, device, mp, pushed>>

GetNewMotionProfileStatus ==
    /\ pc = "call" /\ call.op = "get_new_motion_profile_status"
    /\ \E written \in Written(device.status) :
          result' = get_new_motion_profile_status(mp, device.status, written)
    /\ pc' = "done"
    /\ UNCHANGED <<call, reqs, device, mp, pushed>>

NextFaults ==
    \/ GetFaults \/ GetStickyFaults \/ DecodeFaults \/ DecodeStickyFaults
    \/ GetMotionProfileStatus \/ GetNewMotionProfileStatus

\* one snapshot query (of the faults, or of the motion-profile status) against
\* a device holding arbitrary fault fields and answering with any error code,
\* and the decoding of the faults it returned
SpecFaults == InitFaults /\ [][NextFaults]_vars

---------------------------------------------------------------------------
(* Construction of a device *)

\* a call of TalonSRX::new or VictorSPX::new with one of the device numbers
InitNew ==
    /\ pc = "call"
    /\ \E family \in Families, device_number \in DeviceNumbers :
           call = [op |-> "new", family |-> family, device_number |-> device_number]
    /\ reqs = <<>>
    /\ result = NoResult
    /\ device = IdleDevice
    /\ mp = EmptyProfile
    /\ pushed = <<>>

\* new(device_number) returns the device object
New ==
    /\ pc = "call"
    /\ result' = Ok(new(call.family, call.device_number))
    /\ pc' = "made"
    /\ UNCHANGED <<call, reqs, device, mp, pushed>>

\* a later operation on the object, through &self: get_base_id reads the
\* address, neutral_output sends a request under the handle
UseDevice ==
    /\ pc = "made"
    /\ \/ reqs' = <<[fn |-> "get_base_id", value |-> get_base_id(result.value)]>>
       \/ reqs' = neutral_output(result.value)
    /\ pc' = "used"
    /\ UNCHANGED <<call, result, device, mp, pushed>>

\* the construction of one device and one later operation on it
SpecNew == InitNew /\ [][New \/ UseDevice]_vars

---------------------------------------------------------------------------
(* One point through the transport *)

\* points over the values of each field: f64 of either sign, slot selectors
\* from 0 to u32::MAX, both flags, every duration
EchoPoints ==
    [position : {F64(0, 0), F64(-3, 1)}, velocity : {F64(0, 1)},
     auxiliary_pos : {F64(-1, 0)},
     profile_slot_select_0 : {ZeroWord, I32Word(3), I32Word(I32Min), U32MaxWord},
     profile_slot_select_1 : {I32Word(1), U32MaxWord},
     is_last_point : BOOLEAN, zero_pos : BOOLEAN, time_dur : TrajectoryDurations]

InitEcho ==
    /\ pc = "call"
    /\ \E traj_pt \in EchoPoints :
          call = [op |-> "push_motion_profile_trajectory", traj_pt |-> traj_pt]
    /\ reqs = <<>>
    /\ result = NoResult
    /\ device = IdleDevice
    /\ mp = EmptyProfile
    /\ pushed = <<>>

\* the point is pushed to a transport that keeps what it is sent
PushEcho ==
    /\ pc = "call"
    /\ \E status \in ErrorCodes :
          /\ mp' = push_motion_profile_trajectory(mp, call.traj_pt, status)
          /\ pushed' = IF status = "OK" THEN Append(pushed, call.traj_pt) ELSE pushed
          /\ result' = IF status = "OK" THEN Ok("OK") ELSE Err(status)
    /\ pc' = "done"
    /\ UNCHANGED <<call, reqs, device>>

SpecEcho == InitEcho /\ [][PushEcho]_vars

---------------------------------------------------------------------------
(* Output voltage *)

\* an f64 of small magnitude as a count of 1 / FracDen, and back
Num(x) == (((x.hi * Half) + x.lo) * FracDen) + x.frac
FromNum(n) == F64(n \div FracDen, n % FracDen)

\* x * y on f64, for small x and y whose product is a multiple of 1 / FracDen
\* (it is exact then)
F64Mul(x, y) == FromNum((Num(x) * Num(y)) \div FracDen)

\* the two queries: each names the library call it makes and wraps its answer
get_bus_voltage(dev) ==
    [reqs |-> <<"c_MotController_GetBusVoltage">>,
     result |-> cci_get_call(dev.bus_voltage, dev.bus_voltage_status)]

get_motor_output_percent(dev) ==
    [reqs |-> <<"c_MotController_GetMotorOutputPercent">>,
     result |-> cci_get_call(dev.motor_output_percent, dev.motor_output_percent_status)]

\* get_motor_output_voltage with the output percent queried first
get_motor_output_voltage_percent_first(dev) ==
    LET percent == get_motor_output_percent(dev)
        bus == get_bus_voltage(dev)
    IN  IF percent.result.kind = "Err" THEN percent
        ELSE IF bus.result.kind = "Err"
             THEN [reqs |-> percent.reqs \o bus.reqs, result |-> bus.result]
             ELSE [reqs |-> percent.reqs \o bus.reqs,
                   result |-> Ok(F64Mul(bus.result.value, percent.result.value))]

\* Ok(self.get_bus_voltage()? * self.get_motor_output_percent()?): the left
\* operand is evaluated first, and a `?` on an Err returns it at once
get_motor_output_voltage(dev) ==
    LET bus == get_bus_voltage(dev)
        percent == get_motor_output_percent(dev)
    IN  IF bus.result.kind = "Err" THEN bus
        ELSE IF percent.result.kind = "Err"
             THEN [reqs |-> bus.reqs \o percent.reqs, result |-> percent.result]
             ELSE [reqs |-> bus.reqs \o percent.reqs,
                   result |-> Ok(F64Mul(bus.result.value, percent.result.value))]

\* bus voltages and output percentages the device answers with
BusVoltages == {F64(0, 0), F64(12, 0), F64(12, FracDen \div 2)}
OutputPercents == {F64(-1, 0), F64(-1, FracDen \div 2), F64(0, FracDen \div 2), F64(1, 0)}

\* a call of get_motor_output_voltage on a device that answers each of the
\* two queries with a value and any error code
InitVoltage ==
    /\ pc = "call"
    /\ call = [op |-> "get_motor_output_voltage"]
    /\ reqs = <<>>
    /\ result = NoResult
    /\ \E v \in BusVoltages, p \in OutputPercents, vs \in ErrorCodes, ps \in ErrorCodes :
          device = [bus_voltage |-> v, bus_voltage_status |-> vs,
                    motor_output_percent |-> p, motor_output_percent_status |-> ps]
    /\ mp = EmptyProfile
    /\ pushed = <<>>

GetMotorOutputVoltage ==
    /\ pc = "call"
    /\ reqs' = get_motor_output_voltage(device).reqs
    /\ result' = get_motor_output_voltage(device).result
    /\ pc' = "done"
    /\ UNCHANGED <<call, device, mp, pushed>>

SpecVoltage == InitVoltage /\ [][GetMotorOutputVoltage]_vars

---------------------------------------------------------------------------
(* Properties of the control dispatcher, checked under SpecDispatch *)

\* the call `op` has returned
Returned(op) == pc = "done" /\ call.op = op

\* set(mode, ...) has returned
SetReturned(mode) == Returned("set") /\ call.mode = mode

\* devices built with a device number of the documented range
ValidDevices == {new(family, n) : family \in Families, n \in 0 .. MaxDeviceNumber}

\* the f64 d lies in [0, 62], said on its parts
InDeviceRange(d) ==
    d.hi = 0 /\ (d.lo < MaxDeviceNumber \/ (d.lo = MaxDeviceNumber /\ d.frac = 0))

\* the address bits 16 and above of a base id
HighBits(base_id) == (base_id \div Half) % Half

\* the f64 with the integer value hi16 * 2^8 + low, for 16 bits hi16 and 8 bits low
Composite(hi16, low) ==
    [hi |-> hi16 \div 256, lo |-> ((hi16 % 256) * 256) + low, frac |-> 0]

\* the family tag inside a composite id: the bits 8 and above
CompositeTag(x) == (x.hi * 256) + (x.lo \div 256)

\* the one request of a call
TheRequest == reqs[1]

\* C2: set(Follower, d, t, v) with 0.0 <= d <= 62.0 sends, in one Set_4
\* request, the primary value ((base id >> 16) << 8) | d, where the OR takes d
\* as the device number it holds (its whole part).  The value is written here
\* from the caller's address bits 16 and above and from d alone, so callers
\* that differ in their low address bits only send the same value.
C2_FollowerDeviceNumber ==
    (SetReturned("Follower") /\ InDeviceRange(call.demand0)) =>
        /\ Len(reqs) = 1
        /\ TheRequest.fn = "c_MotController_Set_4"
        /\ TheRequest.mode = "Follower"
        /\ TheRequest.demand0 = Composite(HighBits(call.self.arb_id), call.demand0.lo)

\* a bare device number was re-derived on a caller whose low address bits are
\* not zero
C2_Witness ==
    /\ SetReturned("Follower")
    /\ call.demand0 = F64(7, 0)
    /\ call.self = new("VictorSPX", 33)
    /\ TheRequest.demand0 = F64(66567, 0)

\* C3 as claimed: set(Follower, d, t, v) with d outside [0, 62] sends d
\* unchanged as the primary value.
C3_PassedThroughUnchanged ==
    (SetReturned("Follower") /\ ~InDeviceRange(call.demand0)) =>
        TheRequest.demand0 = call.demand0

\* C3, amended: set(Follower, d, t, v) with d outside [0, 62] sends d
\* converted to a u32: a negative d is sent as 0, a d above 4294967295 as
\* 4294967295, and any other d with its fraction dropped, so that d is sent
\* unchanged exactly when it is an integer in 63 .. 4294967295.
C3_PassedThroughAsU32 ==
    (SetReturned("Follower") /\ ~InDeviceRange(call.demand0)) =>
        LET d == call.demand0
            sent == TheRequest.demand0
        IN  /\ Len(reqs) = 1
            /\ TheRequest.fn = "c_MotController_Set_4"
            /\ d.hi < 0 => sent = [hi |-> 0, lo |-> 0, frac |-> 0]
            /\ d.hi >= Half => sent = [hi |-> Half - 1, lo |-> Half - 1, frac |-> 0]
            /\ (0 <= d.hi /\ d.hi < Half) => sent = [hi |-> d.hi, lo |-> d.lo, frac |-> 0]
            /\ (sent = d) <=> (d.frac = 0 /\ 0 <= d.hi /\ d.hi < Half)

\* an already-encoded id (VictorSPX 5) went through unchanged
C3_Witness ==
    /\ SetReturned("Follower")
    /\ call.demand0 = F64(66565, 0)
    /\ TheRequest.demand0 = call.demand0

\* C4: follow(A, PercentOutput) issued on B sends one Follower-mode request
\* whose primary value is ((A.base_id >> 16) << 8) | (A.base_id & 0xFF), for
\* all A and B with device numbers 0..62.  The value is written here from A's
\* base id alone: B's address has no part in it.
C4_FollowSendsId24 ==
    (/\ Returned("follow") /\ call.follower_type = "PercentOutput"
     /\ call.self \in ValidDevices /\ call.master \in ValidDevices) =>
        /\ Len(reqs) = 1
        /\ TheRequest.fn = "c_MotController_Set_4"
        /\ TheRequest.mode = "Follower"
        /\ TheRequest.demand0 =
              Composite(call.master.arb_id \div Half, call.master.arb_id % 256)

\* a TalonSRX was made to follow a VictorSPX with another device number
C4_Witness ==
    /\ Returned("follow") /\ call.follower_type = "PercentOutput"
    /\ call.self = new("TalonSRX", 3)
    /\ call.master = new("VictorSPX", MaxDeviceNumber)
    /\ TheRequest.demand0 = F64(66622, 0)

\* the family tag as it stands inside a composite id
TagBits(family) == FamilyTag(family) \div Half

\* C5 as claimed: the id sent carries the family tag of the followed device,
\* for follow(target, _) and for set(Follower, target's device number, _, _)
\* alike, also when the target is of the other family.
C5_TargetFamilyTag ==
    /\ (Returned("follow") /\ call.self \in ValidDevices /\ call.master \in ValidDevices) =>
          CompositeTag(TheRequest.demand0) = TagBits(call.master.family)
    /\ (SetReturned("Follower") /\ call.self \in ValidDevices
        /\ InDeviceRange(call.demand0) /\ call.demand0.frac = 0) =>
          \A target \in ValidDevices :
              target.arb_id % 256 = call.demand0.lo =>
                  CompositeTag(TheRequest.demand0) = TagBits(target.family)

\* C5, amended: follow(target, _) sends an id with the family tag of the
\* followed device, whatever the follower's family; set(Follower, device
\* number, _, _) sends an id with the caller's own family tag, so it names
\* the target only when target and caller are of the same family.
C5_FollowTargetSetCallerTag ==
    /\ (Returned("follow") /\ call.self \in ValidDevices /\ call.master \in ValidDevices) =>
          CompositeTag(TheRequest.demand0) = TagBits(call.master.family)
    /\ (SetReturned("Follower") /\ call.self \in ValidDevices
        /\ InDeviceRange(call.demand0) /\ call.demand0.frac = 0) =>
          CompositeTag(TheRequest.demand0) = TagBits(call.self.family)

\* a device was made to follow a device of the other family through follow()
C5_Witness ==
    /\ Returned("follow")
    /\ call.self \in ValidDevices /\ call.master \in ValidDevices
    /\ call.self.family = "VictorSPX" /\ call.master.family = "TalonSRX"
    /\ CompositeTag(TheRequest.demand0) = 516

\* C6 as claimed: set(Current, x, t, v) sends 1000 * x as the primary value
\* and 0 as the secondary value.
C6_CurrentMilliamps ==
    SetReturned("Current") =>
        /\ I32AsF64(TheRequest.demand0) = Mul1000(call.demand0)
        /\ TheRequest.demand1 = 0

\* the whole part of a non-negative f64 below 2^31, as an integer
Whole(x) == (x.hi * Half) + x.lo

\* C6, amended: set(Current, x, t, v) sends 1000 * x converted to an i32 as
\* the primary value: rounded toward zero, and limited to -2147483648 ..
\* 2147483647 (so 1000 * x itself when that is an integer of this range); the
\* secondary value is 0 regardless of t and v.
C6_CurrentMilliampsAsI32 ==
    SetReturned("Current") =>
        LET p == Mul1000(call.demand0)
            sent == TheRequest.demand0
        IN  /\ Len(reqs) = 1
            /\ TheRequest.fn = "c_MotController_SetDemand"
            /\ TheRequest.mode = "Current"
            /\ TheRequest.demand1 = 0
            /\ p.hi >= Half \div 2 => sent = I32Max
            /\ p.hi < -(Half \div 2) => sent = I32Min
            /\ (0 <= p.hi /\ p.hi < Half \div 2) => sent = Whole(p)
            /\ (-(Half \div 2) <= p.hi /\ p.hi < 0) =>
                  sent = Whole(p) + (IF p.frac = 0 THEN 0 ELSE 1)
            /\ (I32AsF64(sent) = p) <=>
                  (p.frac = 0 /\ -(Half \div 2) <= p.hi /\ p.hi < Half \div 2)

\* a negative current with a fraction of a milliamp: -1.0625 A is sent as
\* -1062 mA
C6_Witness ==
    /\ SetReturned("Current")
    /\ call.demand0 = F64(-2, FracDen - 1)
    /\ call.demand1 # F64(0, 0)
    /\ TheRequest.demand0 < -1000 /\ TheRequest.demand0 > -1100

\* C7: set(Disabled, d0, t, d1) sends one SetDemand request with primary and
\* secondary value 0 whatever d0, t and d1 are, and neutral_output() sends
\* the same request.
C7_DisabledSendsZero ==
    (SetReturned("Disabled") \/ Returned("neutral_output")) =>
        reqs = <<[fn |-> "c_MotController_SetDemand", handle |-> call.self.handle,
                  mode |-> "Disabled", demand0 |-> 0, demand1 |-> 0]>>

\* set(Disabled) was called with demands other than zero
C7_Witness ==
    /\ SetReturned("Disabled")
    /\ call.demand0 = F64(40, 0) /\ call.demand1 = F64(7, 0)
    /\ call.demand1_type = "AuxPID"
    /\ TheRequest.demand0 = 0

\* C8: in the six pass-through modes set(mode, d0, t, d1) sends exactly one
\* request, carrying mode, d0, d1 and t as they were given.
C8_PassThroughVerbatim ==
    (Returned("set") /\ call.mode \in
        {"PercentOutput", "Velocity", "Position", "MotionMagic", "MotionProfile",
         "MotionProfileArc"}) =>
        reqs = <<[fn |-> "c_MotController_Set_4", handle |-> call.self.handle,
                  mode |-> call.mode, demand0 |-> call.demand0,
                  demand1 |-> call.demand1, demand1Type |-> call.demand1_type]>>

\* a percent output far outside [-1, 1] went out as it was
C8_Witness ==
    /\ SetReturned("PercentOutput")
    /\ call.demand0 = F64(-3000000, 0) /\ call.demand1 = F64(-1, FracDen \div 2)
    /\ call.demand1_type = "ArbitraryFeedForward"
    /\ TheRequest.demand0 = call.demand0

\* C9: follow(target, PercentOutput) sends a Follower-mode request with demand
\* type Neutral and follow(target, AuxOutput1) one with demand type AuxPID;
\* the secondary value is 0 in both, and the primary value is the one the
\* other follower type sends too.
C9_FollowDemandTypes ==
    Returned("follow") =>
        /\ Len(reqs) = 1
        /\ TheRequest.mode = "Follower"
        /\ call.follower_type = "PercentOutput" => TheRequest.demand1Type = "Neutral"
        /\ call.follower_type = "AuxOutput1" => TheRequest.demand1Type = "AuxPID"
        /\ TheRequest.demand1 = F64(0, 0)
        /\ \A ft \in FollowerTypes :
              follow(call.self, call.master, ft)[1].demand0 = TheRequest.demand0
        /\ call.master \in ValidDevices =>
              TheRequest.demand0 =
                  Composite(call.master.arb_id \div Half, call.master.arb_id % 256)

\* an auxiliary-output follow was issued
C9_Witness ==
    /\ Returned("follow") /\ call.follower_type = "AuxOutput1"
    /\ call.master \in ValidDevices /\ call.self # call.master
    /\ TheRequest.demand1Type = "AuxPID"

---------------------------------------------------------------------------
(* Properties of the fault decoder, checked under SpecFaults *)

\* the i32 whose only set bit is bit k, written out
SingleBit(k) == IF k = 31 THEN (-2147483647) - 1 ELSE 2 ^ k

\* how many of the named accessors return true
TrueFlags(flags) == Cardinality({n \in DOMAIN flags : flags[n]})

\* the call `op` returned Ok
ReturnedOk(op) == pc = "done" /\ call.op = op /\ result.kind = "Ok"

FaultsBitOf ==
    [n \in DOMAIN FaultsFlags(0) |-> CHOOSE k \in 0 .. 31 : FaultsFlags(SingleBit(k))[n]]

\* the conditions StickyFaults names
StickyNames == DOMAIN StickyFaultsFlags(0)

\* C11 as stated: every condition both types name is decoded from the same
\* bit position in both, so a sticky accessor answers to the bit the Faults
\* accessor of that name answers to; hardware_failure alone is missing from
\* StickyFaults.
C11_SameBitPositions ==
    /\ DOMAIN FaultsFlags(0) \ StickyNames = {"hardware_failure"}
    /\ ReturnedOk("get_sticky_faults") =>
          \A n \in StickyNames :
              StickyFaultsFlags(result.value)[n] = FaultBit(result.value, FaultsBitOf[n])

\* C11 as amended: the conditions below hardware_failure are decoded from
\* the same bit position in both types, and each condition above it is
\* decoded in StickyFaults from the bit one below its position in Faults;
\* hardware_failure alone is missing from StickyFaults.
C11_StickyBitsClosedUp ==
    /\ DOMAIN FaultsFlags(0) \ StickyNames = {"hardware_failure"}
    /\ ReturnedOk("get_sticky_faults") =>
          \A n \in StickyNames :
              StickyFaultsFlags(result.value)[n] =
                  IF FaultsBitOf[n] < FaultsBitOf["hardware_failure"]
                  THEN FaultBit(result.value, FaultsBitOf[n])
                  ELSE FaultBit(result.value, FaultsBitOf[n] - 1)

\* sticky faults were read with bit 5 alone set: reset_during_en of
\* StickyFaults, hardware_failure of Faults
C11_Witness ==
    /\ ReturnedOk("get_sticky_faults")
    /\ result.value = 32
    /\ StickyFaultsFlags(result.value).reset_during_en
    /\ ~FaultsFlags(result.value).reset_during_en
    /\ FaultsFlags(result.value).hardware_failure

\* the accessors of what `op` returned have been read
Decoded(op) == pc = "decoded" /\ call.op = op

\* the raw field the device holds for `op`
DeviceField(op) == IF op = "get_faults" THEN device.faults ELSE device.sticky_faults

C13_AnyFaultIffNamedFlag ==
    \A op \in {"get_faults", "get_sticky_faults"} :
        Decoded(op) => (result.has_any_fault <=> TrueFlags(result.flags) > 0)

---------------------------------------------------------------------------
(* Properties of the motion-profile buffers, checked under Spec *)

\* C1: from empty buffers, through any number of pushes and of process
\* calls, the bottom buffer never holds more points than the firmware's
\* capacity, and the points moved from top to bottom, followed by the points
\* still in the top buffer, are the points pushed, each once and in order;
\* so once the top buffer is empty again the number of points moved is the
\* number of points pushed.
C1_DrainKeepsEveryPoint ==
    /\ Len(mp.btm) <= BtmCapacity
    /\ Echoed(mp.moved \o mp.top) = pushed
    /\ \A i, j \in 1 .. Len(pushed) : pushed[i] = pushed[j] => i = j
    /\ Len(mp.top) = 0 => Len(mp.moved) = Len(pushed)

\* more points than the bottom buffer holds were pushed, and process calls
\* have emptied the top buffer
C1_Witness ==
    /\ call.op = "process_motion_profile_buffer"
    /\ Len(pushed) = MaxPoints /\ MaxPoints > BtmCapacity
    /\ Len(mp.top) = 0
    /\ Len(mp.moved) = MaxPoints
    /\ Len(mp.btm) = BtmCapacity

\* what a status query that succeeds reports of the device state dev, by
\* either of the two calls
Reported(dev) == get_new_motion_profile_status(dev, "OK", StatusFields).value
ReportedInPlace(dev) ==
    get_motion_profile_status(dev, EarlierStatus, "OK", StatusFields).status_to_fill

\* C14: a status query made right after a successful
\* clear_motion_profile_has_underrun reports has_underrun = false, whether
\* or not the device is underrunning at that moment; the clear leaves
\* is_underrun and the two buffer counts as they were.
C14_ClearThenQuery ==
    [][(ClearHasUnderrun /\ result' = Ok("OK")) =>
          /\ ~Reported(mp').has_underrun
          /\ ~ReportedInPlace(mp').has_underrun
          /\ Reported(mp').is_underrun = mp.is_underrun
          /\ Reported(mp').top_buffer_cnt = Len(mp.top)
          /\ Reported(mp').btm_buffer_cnt = Len(mp.btm)
          /\ mp'.is_underrun = mp.is_underrun
          /\ mp'.top = mp.top /\ mp'.btm = mp.btm]_vars

\* the flag was cleared while the device was underrunning with points still
\* waiting in the top buffer
C14_Witness ==
    /\ call.op = "clear_motion_profile_has_underrun" /\ result = Ok("OK")
    /\ mp.is_underrun /\ ~mp.has_underrun
    /\ Len(mp.top) > 0
    /\ ~Reported(mp).has_underrun /\ Reported(mp).is_underrun

\* C15: the has-underrun flag is sticky: once true it stays true through
\* every push, process, status query and clear_motion_profile_trajectories,
\* and through the firmware leaving the underrun condition; the only step
\* that makes it false is a successful clear_motion_profile_has_underrun.
C15_HasUnderrunSticky ==
    [][(mp.has_underrun /\ ~mp'.has_underrun) =>
          (ClearHasUnderrun /\ result' = Ok("OK"))]_vars

\* the underrun has ended (the firmware is executing points again) and a
\* status query still reports the flag
C15_Witness ==
    /\ call.op = "get_new_motion_profile_status" /\ result.kind = "Ok"
    /\ result.value.has_underrun /\ ~result.value.is_underrun
    /\ result.value.active_point_valid
    /\ mp.has_underrun /\ ~mp.is_underrun

\* C16: after a successful clear_motion_profile_trajectories the top buffer
\* and the bottom buffer are both empty, and a status query reports both
\* counts as 0, whatever the buffers held before the call.
C16_ClearEmptiesBothBuffers ==
    [][(ClearTrajectories /\ result' = Ok("OK")) =>
          /\ mp'.top = <<>> /\ mp'.btm = <<>>
          /\ Reported(mp').top_buffer_cnt = 0
          /\ Reported(mp').btm_buffer_cnt = 0]_vars

\* a profile that was being executed was cleared: an active point, no
\* underrun, and both buffers empty
C16_Witness ==
    /\ call.op = "clear_motion_profile_trajectories" /\ result = Ok("OK")
    /\ mp.top = <<>> /\ mp.btm = <<>>
    /\ mp.active # <<>> /\ ~mp.is_underrun /\ mp.output_enable = 1

\* the queries of the motion-profile state
BufferQueries ==
    {"get_motion_profile_top_level_buffer_count",
     "is_motion_profile_top_level_buffer_full",
     "get_motion_profile_status", "get_new_motion_profile_status"}

\* C24: only process_motion_profile_buffer moves points from the top buffer
\* to the bottom buffer: the bottom buffer grows in no other step; a push that
\* the device accepts appends exactly its point to the top buffer, however
\* many points the buffer holds, and leaves the bottom buffer as it is; the
\* top-level count query, the top-level full query and the status queries
\* change neither buffer.
C24_OnlyProcessMovesPoints ==
    [][/\ Len(mp'.btm) > Len(mp.btm) =>
              /\ call'.op = "process_motion_profile_buffer"
              /\ mp.top = SubSeq(mp'.btm, Len(mp.btm) + 1, Len(mp'.btm)) \o mp'.top
              /\ SubSeq(mp'.btm, 1, Len(mp.btm)) = mp.btm
       /\ pushed' # pushed /\ call'.op = "push_motion_profile_trajectory" =>
              /\ Len(mp'.top) = Len(mp.top) + 1
              /\ SubSeq(mp'.top, 1, Len(mp.top)) = mp.top
              /\ ReadBack(mp'.top[Len(mp'.top)]) = pushed'[Len(pushed')]
              /\ mp'.btm = mp.btm
       /\ call'.op \in BufferQueries /\ call' # call =>
              mp'.top = mp.top /\ mp'.btm = mp.btm]_vars

\* every point was pushed and process has filled the bottom buffer; two
\* points wait in the top buffer and the count query answered 2
C24_Witness ==
    /\ call.op = "get_motion_profile_top_level_buffer_count"
    /\ result = Ok(2)
    /\ Len(mp.top) = 2 /\ Len(mp.btm) = BtmCapacity
    /\ Len(pushed) = MaxPoints

---------------------------------------------------------------------------
(* Properties of the snapshot queries, checked under SpecFaults *)

FaultQueries == {"get_faults", "get_sticky_faults"}

\* the MotionProfileStatus that holds all the device reports of dev
FullStatus(dev) ==
    [DeviceStatus(dev) EXCEPT !.output_enable = SetValueMotionProfile(@)]

\* C17: each snapshot helper yields either a fully populated struct or one
\* propagated error, never a partially filled struct: on OK the caller has
\* the whole of what the device reports; on an error it has the error code
\* and no struct any field of which the failed query wrote (a struct handed
\* in to be filled is as it was).
C17_WholeStructOrError ==
    /\ \A op \in FaultQueries :
          Returned(op) =>
              IF device.status = "OK"
              THEN result = Ok(DeviceField(op))
              ELSE result = Err(device.status)
    /\ Returned("get_new_motion_profile_status") =>
          IF device.status = "OK"
          THEN result = Ok(FullStatus(mp))
          ELSE result = Err(device.status)
    /\ Returned("get_motion_profile_status") =>
          /\ result.code = device.status
          /\ result.status_to_fill =
                IF device.status = "OK" THEN FullStatus(mp) ELSE call.status_to_fill

\* C18 as stated: the snapshot queries never fail: when the device reports
\* an error or has no data they yield an all-false / zeroed result, not an
\* error.
C18_NeverAnError ==
    /\ \A op \in FaultQueries :
          Returned(op) =>
              result = Ok(IF device.status = "OK" THEN DeviceField(op) ELSE 0)
    /\ Returned("get_new_motion_profile_status") =>
          result = Ok(IF device.status = "OK" THEN FullStatus(mp) ELSE DefaultStatus)

\* C18 as amended: decoding never fails and a device with nothing to report
\* yields an all-false result (a zero field has no flag set and no fault at
\* all; an idle device's status has zero counts, no flag and no active
\* point); but when the device reports an error, get_faults,
\* get_sticky_faults and get_new_motion_profile_status return that error
\* code as their error outcome and get_motion_profile_status returns it as
\* its code, instead of a zeroed result.
C18_ErrorIsHandedOn ==
    /\ \A op \in FaultQueries :
          /\ Returned(op) =>
                IF device.status = "OK"
                THEN result = Ok(DeviceField(op))
                ELSE result = Err(device.status)
          /\ (Decoded(op) /\ result.raw = 0) =>
                (TrueFlags(result.flags) = 0 /\ ~result.has_any_fault)
    /\ Returned("get_new_motion_profile_status") =>
          IF device.status = "OK"
          THEN /\ result.kind = "Ok"
               /\ mp = EmptyProfile =>
                     result.value = [DefaultStatus EXCEPT !.top_buffer_rem = TopCapacity]
          ELSE result = Err(device.status)
    /\ Returned("get_motion_profile_status") => result.code = device.status

\* get_faults was answered with an error by a device whose fault field is
\* not empty, and returned that error
C18_Witness ==
    /\ Returned("get_faults")
    /\ device.status = "E2" /\ device.faults = 32
    /\ result = Err("E2")

---------------------------------------------------------------------------
(* Properties of push and process from two threads, checked under
   SpecThreads *)

\* C19: with push_motion_profile_trajectory and
\* process_motion_profile_buffer called from two threads, the two are never
\* inside the library at once, and in every interleaving the points moved
\* to the bottom buffer followed by the points still in the top buffer are
\* the points pushed, each once, in order and whole; this is what either
\* thread reads on entering, and what is there whenever neither is inside.
C19_PushProcessExclusive ==
    /\ ~(pc.pusher # "idle" /\ pc.processor # "idle")
    /\ \A t \in Threads : pc[t] # "idle" => mp.mutex = t
    /\ \A i, j \in 1 .. Len(pushed) : pushed[i] = pushed[j] => i = j
    /\ MutexFree(mp) => Echoed(mp.moved \o mp.top) = pushed
    /\ pc.processor = "read" =>
          Echoed(call.processor.seen.moved \o call.processor.seen.top) = pushed
    /\ pc.pusher = "read" =>
          Echoed(call.pusher.seen.moved \o call.pusher.seen.top) = pushed

\* the pusher is inside the library with its point written while the
\* processor, which has moved points before, waits outside; points are in
\* both buffers
C19_Witness ==
    /\ pc.pusher = "written" /\ pc.processor = "idle"
    /\ mp.mutex = "pusher"
    /\ result.processor = Unit
    /\ Len(mp.moved) >= BtmCapacity /\ Len(mp.top) >= 2
    /\ Len(pushed) = MaxPoints

---------------------------------------------------------------------------
(* Properties of the configuration setters, checked under SpecConfig *)

\* C20: every configuration setter sends its request once and never again;
\* called with timeout_ms = 0 it returns OK without waiting and without
\* looking for a confirmation; called with timeout_ms > 0 it returns only
\* once the device has confirmed (OK) or the whole timeout has elapsed, and
\* then with the timeout error.
C20_TimeoutConvention ==
    /\ Len(reqs) <= 1
    /\ pc # "call" => (Len(reqs) = 1 /\ reqs[1].timeout_ms = call.timeout_ms)
    /\ (pc = "done" /\ call.timeout_ms = 0) =>
          (call.waited = 0 /\ result = Ok("OK") /\ ~device.confirmed)
    /\ (pc = "done" /\ call.timeout_ms > 0) =>
          \/ result = Ok("OK") /\ device.confirmed /\ call.waited <= call.timeout_ms
          \/ result = Err(TimedOut) /\ ~device.confirmed
             /\ call.waited = call.timeout_ms

\* a setter given the longest timeout waited all of it for a device that is
\* not there and returned the timeout error, having sent one request
C20_Witness ==
    /\ pc = "done" /\ call.op = "config_voltage_comp_saturation"
    /\ call.timeout_ms = MaxTimeout /\ call.waited = MaxTimeout
    /\ device.status # "OK"
    /\ result = Err(TimedOut)
    /\ Len(reqs) = 1

---------------------------------------------------------------------------
(* Properties of the construction of a device, checked under SpecNew *)

\* the tag of a family, written out
TagOf(family) == IF family = "TalonSRX" THEN 33816576 ELSE 17039360

\* the device number held in an address: its low byte, as follow() takes it
DeviceNumberOf(arb_id) == AndI32(arb_id, 255)

\* C21: for a device number n in 0..62 and either family, the address
\* new(n) builds as n | tag has n in its low bits and the family tag in the
\* bits above them, and no other pair (family, n) of that range is given the
\* same address.
C21_AddressRoundTrip ==
    (pc = "made" /\ call.device_number \in 0 .. MaxDeviceNumber) =>
        LET arb_id == get_base_id(result.value)
        IN  /\ DeviceNumberOf(arb_id) = call.device_number
            /\ arb_id - DeviceNumberOf(arb_id) = TagOf(call.family)
            /\ \A family \in Families, n \in 0 .. MaxDeviceNumber :
                   get_base_id(new(family, n)) = arb_id =>
                       (family = call.family /\ n = call.device_number)

\* VictorSPX::new(62) has returned the address 0x0104003E
C21_Witness ==
    /\ pc = "made"
    /\ call.family = "VictorSPX"
    /\ call.device_number = MaxDeviceNumber
    /\ get_base_id(result.value) = 17039422

\* C22: a device object that new(device_number) returned holds a device
\* number of [0, 62] in its address, and the address is still the one new()
\* built after a later operation on the object.
C22_DeviceNumberInRange ==
    pc \in {"made", "used"} =>
        /\ DeviceNumberOf(get_base_id(result.value)) \in 0 .. MaxDeviceNumber
        /\ get_base_id(result.value) = OrI32(call.device_number, TagOf(call.family))

---------------------------------------------------------------------------
(* Properties of the output voltage, checked under SpecVoltage *)

\* C27: get_motor_output_voltage queries the bus voltage first and the output
\* percent second; if the bus-voltage query fails it returns that error and
\* the output percent is not queried; if only the output-percent query fails
\* it returns that error; it returns a value only when both queries
\* succeeded, and then the product of the two answers.
C27_BusVoltageThenPercent ==
    pc = "done" =>
        /\ reqs[1] = "c_MotController_GetBusVoltage"
        /\ IF device.bus_voltage_status # "OK"
           THEN result = Err(device.bus_voltage_status) /\ Len(reqs) = 1
           ELSE /\ reqs = <<"c_MotController_GetBusVoltage",
                            "c_MotController_GetMotorOutputPercent">>
                /\ IF device.motor_output_percent_status # "OK"
                   THEN result = Err(device.motor_output_percent_status)
                   ELSE /\ result.kind = "Ok"
                        /\ Num(result.value) * FracDen =
                               Num(device.bus_voltage) * Num(device.motor_output_percent)

\* both queries fail, with different errors: the bus-voltage error is returned
\* and the output percent was not queried
C27_Witness ==
    /\ pc = "done"
    /\ device.bus_voltage_status = "E1" /\ device.motor_output_percent_status = "E2"
    /\ result = Err("E1")
    /\ Len(reqs) = 1

---------------------------------------------------------------------------
(* Properties of one point through the transport, checked under SpecEcho *)

\* C25: a point pushed to a transport that keeps what it is sent, and read
\* back from it, has the position, velocity, auxiliary position, both slot
\* selectors, the is-last flag, the zero-position flag and the duration of
\* the point pushed, whatever their values.
C25_PointRoundTrip ==
    (pc = "done" /\ result = Ok("OK")) =>
        /\ Len(mp.top) = 1
        /\ ReadBack(mp.top[1]) = call.traj_pt
        /\ mp.top[1].position = call.traj_pt.position
        /\ mp.top[1].velocity = call.traj_pt.velocity
        /\ mp.top[1].auxiliary_pos = call.traj_pt.auxiliary_pos
        /\ mp.top[1].is_last_point = call.traj_pt.is_last_point
        /\ mp.top[1].zero_pos = call.traj_pt.zero_pos

\* a point with the slot selectors 0x80000000 and u32::MAX and the longest
\* duration went through: the transport holds i32::MIN, -1 and 100
C25_Witness ==
    /\ pc = "done" /\ result = Ok("OK")
    /\ call.traj_pt.profile_slot_select_0 = I32Word(I32Min)
    /\ call.traj_pt.profile_slot_select_1 = U32MaxWord
    /\ call.traj_pt.time_dur = "T100ms"
    /\ mp.top[1].profile_slot_select_0 = I32Min
    /\ mp.top[1].profile_slot_select_1 = -1
    /\ mp.top[1].time_dur = 100

---------------------------------------------------------------------------
(* Properties of a host that stops calling process, checked under
   SpecStarved *)

\* C23: once process_motion_profile_buffer is called no more while a profile
\* executes, then however many points are pushed to the top buffer
\* afterwards, the bottom buffer eventually is empty and the has-underrun
\* flag eventually is true.
C23_StarvedProfileUnderruns ==
    (pc = "starved") ~> (mp.btm = <<>> /\ mp.has_underrun)

\* after the last process call every point the host has was pushed and two
\* of them wait in the top buffer, and the device has underrun with its
\* bottom buffer empty
C23_Witness ==
    /\ pc = "starved"
    /\ call.op = "push_motion_profile_trajectory"
    /\ Len(pushed) = MaxPoints /\ Len(mp.top) >= 2
    /\ mp.btm = <<>> /\ mp.has_underrun /\ mp.is_underrun

============================================================================
